---- MODULE Spec2Model ----
(***************************************************************************)
(* A model of goo.gl.py: the GoogleShortenerScanner (result ledger, resume *)
(* lookup, identifier sequencing, resolution, scan loop) and main().       *)
(*                                                                         *)
(* Strings are modelled as sequences of tokens.  The characters of the     *)
(* alphabet and "-" are one-character tokens; "/goo.gl/" is one token, so  *)
(* that "contains '/goo.gl/'" and "split on '/goo.gl/'" are computed on    *)
(* the token sequence.  Python's None and an unbound local are two         *)
(* reserved one-token sequences that no string of the model equals.        *)
(***************************************************************************)
EXTENDS Integers, Sequences, FiniteSets, TLC

\* ------------------------------------------------------------- bounds
\* The scan alphabet is the first AlphabetSize symbols of the 62 of the code.
AlphabetSize == 2
\* Scan lengths are drawn from 1..MaxLength.
MaxLength == 2
\* Number of process runs (invocations of main) in one behaviour.
MaxRuns == 2
\* Number of HTTP requests issued in one behaviour, over all runs.
MaxRequests == 3

\* ------------------------------------------------------------- values
None == <<"<None>">>
Unbound == <<"<unbound>">>

Range(s) == {s[i] : i \in 1..Len(s)}

RECURSIVE Pow(_, _)
Pow(b, e) == IF e = 0 THEN 1 ELSE b * Pow(b, e - 1)

\* string.ascii_letters + string.digits
ascii_letters_digits ==
    << "a","b","c","d","e","f","g","h","i","j","k","l","m",
       "n","o","p","q","r","s","t","u","v","w","x","y","z",
       "A","B","C","D","E","F","G","H","I","J","K","L","M",
       "N","O","P","Q","R","S","T","U","V","W","X","Y","Z",
       "0","1","2","3","4","5","6","7","8","9" >>

chars == SubSeq(ascii_letters_digits, 1, AlphabetSize)

\* A symbol outside string.ascii_letters + string.digits.
Dash == "-"

\* The multi-character tokens of the model and their lengths in characters.
TokLen(t) ==
    CASE t = "https:/" -> 7
      [] t = "/goo.gl/" -> 8
      [] t = "goo.gl/" -> 7
      [] t = "short_url" -> 9
      [] OTHER -> 1

RECURSIVE StrLen(_)
StrLen(s) == IF s = <<>> THEN 0 ELSE TokLen(Head(s)) + StrLen(Tail(s))

\* chars.index(c): the 0-based position, -1 standing for ValueError.
chars_index(c) ==
    IF \E i \in 1..Len(chars) : chars[i] = c
    THEN (CHOOSE i \in 1..Len(chars) : chars[i] = c) - 1
    ELSE -1

\* f"https://goo.gl/{url_suffix}"
ShortUrl(url_suffix) == <<"https:/", "/goo.gl/">> \o url_suffix

\* product_nth with the leftmost position advancing fastest (a faulty variant,
\* which C3 must detect).
product_nth_leftmost_fastest(n, length) ==
    [i \in 1..length |-> chars[((n \div Pow(Len(chars), i - 1)) % Len(chars)) + 1]]

\* The n-th tuple (from 0) of itertools.product(chars, repeat=length), joined:
\* tuples come in lexicographic order, the rightmost position advancing fastest.
product_nth(n, length) ==
    [i \in 1..length |-> chars[((n \div Pow(Len(chars), length - i)) % Len(chars)) + 1]]

NumCombos(length) == Pow(Len(chars), length)

\* ----------------------------------------------------------- sequencer
RECURSIVE increment(_, _, _)
increment(suffix_list, i, carry) ==
    IF i = 0 \/ carry = 0
    THEN [err |-> FALSE, list |-> suffix_list, carry |-> carry]
    ELSE LET current_index == chars_index(suffix_list[i]) IN
         IF current_index = -1
         THEN [err |-> TRUE, list |-> suffix_list, carry |-> carry]
         ELSE LET new_index == current_index + carry IN
              IF new_index < Len(chars)
              THEN increment([suffix_list EXCEPT ![i] = chars[new_index + 1]], i - 1, 0)
              ELSE increment([suffix_list EXCEPT ![i] = chars[1]], i - 1, 1)

\* _get_next_url_suffix advancing the last position only, without the carry
\* into the positions on its left (a faulty variant, which C16 must detect).
_get_next_url_suffix_without_carry(current_suffix, length) ==
    IF StrLen(current_suffix) # length
    THEN None
    ELSE LET current_index == chars_index(current_suffix[length]) IN
         IF current_index = -1 THEN None
         ELSE IF current_index + 1 < Len(chars)
         THEN [current_suffix EXCEPT ![length] = chars[current_index + 2]]
         ELSE None

_get_next_url_suffix(current_suffix, length) ==
    IF StrLen(current_suffix) # length
    THEN None
    ELSE LET r == increment(current_suffix, length, 1) IN
         IF r.err THEN None
         ELSE IF r.carry = 1 THEN None
         ELSE r.list

RECURSIVE index_from(_, _, _, _)
index_from(suffix, length, i, index) ==
    IF i > Len(suffix) THEN index
    ELSE LET char_index == chars_index(suffix[i]) IN
         IF char_index = -1 THEN 0
         ELSE index_from(suffix, length, i + 1,
                         index + char_index * Pow(Len(chars), length - i))

RECURSIVE index_from_least_significant_first(_, _, _, _)
index_from_least_significant_first(suffix, length, i, index) ==
    IF i > Len(suffix) THEN index
    ELSE LET char_index == chars_index(suffix[i]) IN
         IF char_index = -1 THEN 0
         ELSE index_from_least_significant_first(suffix, length, i + 1,
                         index + char_index * Pow(Len(chars), i - 1))

\* _url_suffix_to_index weighting the first symbol least (a faulty variant,
\* which C17 must detect).
_url_suffix_to_index_least_significant_first(suffix, length) ==
    IF StrLen(suffix) # length THEN 0
    ELSE index_from_least_significant_first(suffix, length, 1, 0)

_url_suffix_to_index(suffix, length) ==
    IF StrLen(suffix) # length THEN 0
    ELSE index_from(suffix, length, 1, 0)

\* -------------------------------------------------------------- ledger
\* A row of the CSV file is a sequence of fields.  The first and second
\* fields are strings (token sequences); status and timestamp are atoms.
SEP == "/goo.gl/"

Header == << <<"short_url">>, <<"destination_url">>, "status", "timestamp" >>

\* time.strftime('%Y-%m-%d %H:%M:%S'): the clock is not modelled.
Timestamp == "YYYY-MM-DD HH:MM:SS"

Contains(s, tok) == \E i \in 1..Len(s) : s[i] = tok

\* short_url.split('/goo.gl/')[-1], for a short_url that contains the separator
SplitLast(s) ==
    LET last == CHOOSE i \in 1..Len(s) :
                    s[i] = SEP /\ \A j \in (i + 1)..Len(s) : s[j] # SEP
    IN SubSeq(s, last + 1, Len(s))

RECURSIVE last_matching(_, _, _, _)
last_matching(rows, i, length, last_url) ==
    IF i > Len(rows) THEN last_url
    ELSE LET row == rows[i] IN
         IF Len(row) >= 1 /\ Contains(row[1], SEP)
                /\ StrLen(SplitLast(row[1])) = length
         THEN last_matching(rows, i + 1, length, SplitLast(row[1]))
         ELSE last_matching(rows, i + 1, length, last_url)

RECURSIVE first_matching(_, _, _)
first_matching(rows, i, length) ==
    IF i > Len(rows) THEN None
    ELSE LET row == rows[i] IN
         IF Len(row) >= 1 /\ Contains(row[1], SEP)
                /\ StrLen(SplitLast(row[1])) = length
         THEN SplitLast(row[1])
         ELSE first_matching(rows, i + 1, length)

\* _find_last_processed_url stopping at the first matching row (a faulty
\* variant, which C1 must detect).
_find_first_processed_url(f, length) ==
    IF ~f.exists \/ ~f.readable \/ f.rows = <<>> THEN None
    ELSE first_matching(f.rows, 2, length)

\* _find_last_processed_url without the next(reader) that skips the first
\* line (a faulty variant, which C11 must detect).
_find_last_processed_url_keeping_first_line(f, length) ==
    IF ~f.exists \/ ~f.readable \/ f.rows = <<>> THEN None
    ELSE LET last_url == last_matching(f.rows, 1, length, None) IN
         IF last_url # None /\ last_url # <<>> THEN last_url ELSE None

\* f is the state of the output file: [exists, readable, rows].
\* An unreadable file makes open() raise, an empty one makes next(reader)
\* raise StopIteration; both are caught by "except Exception".
_find_last_processed_url(f, length) ==
    IF ~f.exists THEN None
    ELSE IF ~f.readable THEN None
    ELSE IF f.rows = <<>> THEN None
    ELSE LET last_url == last_matching(f.rows, 2, length, None) IN
         IF last_url # None /\ last_url # <<>> THEN last_url ELSE None

\* _initialize_csv opening the file with 'w' whether it exists or not (a
\* faulty variant, which C5 must detect).
_initialize_csv_truncating(f) ==
    [exists |-> TRUE, readable |-> TRUE, rows |-> <<Header>>]

\* _initialize_csv: the header is written only when the file does not exist.
_initialize_csv(f) ==
    IF ~f.exists
    THEN [exists |-> TRUE, readable |-> TRUE, rows |-> <<Header>>]
    ELSE f

NotFoundStatuses == {"404_error", "link_not_found"}

\* save_result without the skip_404 test (a faulty variant, which C4 must detect).
save_result_ignoring_flag(f, skip_404, short_url, destination_url, status) ==
    [f EXCEPT !.exists = TRUE,
              !.rows = Append(f.rows, <<short_url, destination_url, status, Timestamp>>)]

\* save_result skipping not-found results whatever the flag (a faulty
\* variant, which C9 must detect).
save_result_skipping_always(f, skip_404, short_url, destination_url, status) ==
    IF status \in NotFoundStatuses
    THEN f
    ELSE [f EXCEPT !.exists = TRUE,
                   !.rows = Append(f.rows, <<short_url, destination_url, status, Timestamp>>)]

\* save_result: opens the file in append mode and writes one row.
save_result(f, skip_404, short_url, destination_url, status) ==
    IF skip_404 /\ status \in NotFoundStatuses
    THEN f
    ELSE [f EXCEPT !.exists = TRUE,
                   !.rows = Append(f.rows, <<short_url, destination_url, status, Timestamp>>)]

\* ------------------------------------------------- warning-page extractor
\* URL text is a sequence of tokens; UrlTokLen, lower, unescape and
\* decode_escapes give each token's length and its image under str.lower,
\* html.unescape and the four str.replace calls of the extractor.
UrlTokLen(t) ==
    CASE t = "https://" -> 8
      [] t = "HTTPS://" -> 8
      [] t = "http://" -> 7
      [] t = "example.org" -> 11
      [] t = "gstatic.com" -> 11
      [] t = "GSTATIC.COM" -> 11
      [] t = "gst&#97;tic.com" -> 15
      [] t = "/x" -> 2
      [] t = "%3D" -> 3
      [] t = "&amp;" -> 5
      [] OTHER -> 1

RECURSIVE UrlLen(_)
UrlLen(s) == IF s = <<>> THEN 0 ELSE UrlTokLen(Head(s)) + UrlLen(Tail(s))

lower(t) ==
    CASE t = "HTTPS://" -> "https://"
      [] t = "GSTATIC.COM" -> "gstatic.com"
      [] OTHER -> t

unescape(t) ==
    CASE t = "&amp;" -> "&"
      [] t = "gst&#97;tic.com" -> "gstatic.com"
      [] OTHER -> t

decode_escapes(t) ==
    CASE t = "%3D" -> "="
      [] OTHER -> t

MapTokens(Op(_), s) == [i \in 1..Len(s) |-> Op(s[i])]

RECURSIVE strip(_)
strip(s) ==
    IF s # <<>> /\ Head(s) = " " THEN strip(Tail(s))
    ELSE IF s # <<>> /\ s[Len(s)] = " " THEN strip(SubSeq(s, 1, Len(s) - 1))
    ELSE s

\* The tokens of skip_domains that occur in the model's URLs.
skip_domains == {"gstatic.com"}

is_valid_redirect_url(url) ==
    IF url = <<>> \/ UrlLen(url) < 10 THEN FALSE
    ELSE IF \E i \in 1..Len(url) : lower(url[i]) \in skip_domains THEN FALSE
    ELSE IF ~(Head(url) \in {"http://", "https://"}) THEN FALSE
    ELSE TRUE

\* len(patterns)
NumPatterns == 14

\* A body lists, in the order of the text, the places where a regular
\* expression of the extractor matches: [pattern, text], pattern being the
\* index in `patterns` whose group captures `text` (0: no pattern matches
\* there).  The bare-URL expression matches at every place whose text begins
\* with a scheme, in any case, and captures the same text.
MatchesOf(body, p) ==
    SelectSeq(body.matches, LAMBDA m : m.pattern = p)

all_urls(body) ==
    SelectSeq(body.matches,
              LAMBDA m : m.text # <<>> /\ lower(Head(m.text)) \in {"http://", "https://"})

decoded(match) ==
    MapTokens(unescape, MapTokens(decode_escapes, strip(match)))

RECURSIVE first_valid_decoded(_, _)
first_valid_decoded(matches, i) ==
    IF i > Len(matches) THEN None
    ELSE IF is_valid_redirect_url(decoded(matches[i].text))
         THEN decoded(matches[i].text)
         ELSE first_valid_decoded(matches, i + 1)

RECURSIVE try_patterns(_, _)
try_patterns(body, p) ==
    IF p > NumPatterns THEN None
    ELSE LET url == first_valid_decoded(MatchesOf(body, p), 1) IN
         IF url # None THEN url ELSE try_patterns(body, p + 1)

_extract_redirect_from_warning_page(body) ==
    LET url == try_patterns(body, 1) IN
    IF url # None THEN url
    ELSE LET valid_urls == SelectSeq(all_urls(body),
                                     LAMBDA m : is_valid_redirect_url(m.text)) IN
         IF valid_urls # <<>>
         THEN MapTokens(unescape, valid_urls[1].text)
         ELSE None

\* ------------------------------------------------------------ classifier
\* A response: exc is the exception session.get raises ("none": it returns),
\* status_code, Location (None: the header is absent) and body are those of
\* the response it returns.
RedirectCodes == {301, 302, 303, 307, 308}

\* response.headers.get(key, default), given the value of the header
headers_get(value, default) == IF value = None THEN default ELSE value

\* resolve_goo_gl_url with the clause for RequestException placed first, where
\* it catches its subclasses Timeout and ConnectionError too (a faulty variant,
\* which C13 must detect).
resolve_goo_gl_url_general_clause_first(short_url, resp) ==
    IF resp.exc \in {"Timeout", "ConnectionError", "RequestException"}
    THEN [destination_url |-> <<"REQUEST_ERROR: ", "str(e)">>, status |-> "request_exception"]
    ELSE IF resp.exc = "ValueError"
    THEN [destination_url |-> <<"UNEXPECTED_ERROR: ", "str(e)">>, status |-> "unexpected_error"]
    ELSE IF resp.status_code = 200
    THEN IF "Dynamic Link Not Found" \in resp.body.phrases
             \/ "not found" \in resp.body.phrases
         THEN [destination_url |-> <<"NOT_FOUND">>, status |-> "link_not_found"]
         ELSE IF "This link will no longer work" \in resp.body.phrases
                  \/ "goo.gl links will no longer function" \in resp.body.phrases
         THEN LET redirect_url == _extract_redirect_from_warning_page(resp.body) IN
              IF redirect_url # None /\ redirect_url # <<>>
              THEN [destination_url |-> redirect_url, status |-> "resolved_from_warning"]
              ELSE [destination_url |-> <<"WARNING_PAGE_NO_EXTRACT">>,
                    status |-> "warning_page_parse_failed"]
         ELSE [destination_url |-> short_url, status |-> "direct_200"]
    ELSE IF resp.status_code \in RedirectCodes
    THEN LET redirect_url == headers_get(resp.Location, <<>>) IN
         IF redirect_url # <<>>
         THEN [destination_url |-> redirect_url, status |-> "direct_redirect"]
         ELSE [destination_url |-> <<"NO_LOCATION_HEADER">>,
               status |-> "redirect_without_location"]
    ELSE IF resp.status_code = 404
    THEN [destination_url |-> <<"NOT_FOUND">>, status |-> "404_error"]
    ELSE [destination_url |-> <<"HTTP_" \o ToString(resp.status_code)>>,
          status |-> "http_error_" \o ToString(resp.status_code)]

\* resolve_goo_gl_url testing the warning phrases before the not-found
\* phrases (a faulty variant, which C12 must detect).
resolve_goo_gl_url_warning_first(short_url, resp) ==
    IF resp.exc = "Timeout"
    THEN [destination_url |-> <<"TIMEOUT">>, status |-> "request_timeout"]
    ELSE IF resp.exc = "ConnectionError"
    THEN [destination_url |-> <<"CONNECTION_ERROR">>, status |-> "connection_failed"]
    ELSE IF resp.exc = "RequestException"
    THEN [destination_url |-> <<"REQUEST_ERROR: ", "str(e)">>, status |-> "request_exception"]
    ELSE IF resp.exc = "ValueError"
    THEN [destination_url |-> <<"UNEXPECTED_ERROR: ", "str(e)">>, status |-> "unexpected_error"]
    ELSE IF resp.status_code = 200
    THEN IF "This link will no longer work" \in resp.body.phrases
             \/ "goo.gl links will no longer function" \in resp.body.phrases
         THEN LET redirect_url == _extract_redirect_from_warning_page(resp.body) IN
              IF redirect_url # None /\ redirect_url # <<>>
              THEN [destination_url |-> redirect_url, status |-> "resolved_from_warning"]
              ELSE [destination_url |-> <<"WARNING_PAGE_NO_EXTRACT">>,
                    status |-> "warning_page_parse_failed"]
         ELSE IF "Dynamic Link Not Found" \in resp.body.phrases
                  \/ "not found" \in resp.body.phrases
         THEN [destination_url |-> <<"NOT_FOUND">>, status |-> "link_not_found"]
         ELSE [destination_url |-> short_url, status |-> "direct_200"]
    ELSE IF resp.status_code \in RedirectCodes
    THEN LET redirect_url == headers_get(resp.Location, <<>>) IN
         IF redirect_url # <<>>
         THEN [destination_url |-> redirect_url, status |-> "direct_redirect"]
         ELSE [destination_url |-> <<"NO_LOCATION_HEADER">>,
               status |-> "redirect_without_location"]
    ELSE IF resp.status_code = 404
    THEN [destination_url |-> <<"NOT_FOUND">>, status |-> "404_error"]
    ELSE [destination_url |-> <<"HTTP_" \o ToString(resp.status_code)>>,
          status |-> "http_error_" \o ToString(resp.status_code)]

resolve_goo_gl_url(short_url, resp) ==
    IF resp.exc = "Timeout"
    THEN [destination_url |-> <<"TIMEOUT">>, status |-> "request_timeout"]
    ELSE IF resp.exc = "ConnectionError"
    THEN [destination_url |-> <<"CONNECTION_ERROR">>, status |-> "connection_failed"]
    ELSE IF resp.exc = "RequestException"
    THEN [destination_url |-> <<"REQUEST_ERROR: ", "str(e)">>, status |-> "request_exception"]
    ELSE IF resp.exc = "ValueError"
    THEN [destination_url |-> <<"UNEXPECTED_ERROR: ", "str(e)">>, status |-> "unexpected_error"]
    ELSE IF resp.status_code = 200
    THEN IF "Dynamic Link Not Found" \in resp.body.phrases
             \/ "not found" \in resp.body.phrases
         THEN [destination_url |-> <<"NOT_FOUND">>, status |-> "link_not_found"]
         ELSE IF "This link will no longer work" \in resp.body.phrases
                  \/ "goo.gl links will no longer function" \in resp.body.phrases
         THEN LET redirect_url == _extract_redirect_from_warning_page(resp.body) IN
              IF redirect_url # None /\ redirect_url # <<>>
              THEN [destination_url |-> redirect_url, status |-> "resolved_from_warning"]
              ELSE [destination_url |-> <<"WARNING_PAGE_NO_EXTRACT">>,
                    status |-> "warning_page_parse_failed"]
         ELSE [destination_url |-> short_url, status |-> "direct_200"]
    ELSE IF resp.status_code \in RedirectCodes
    THEN LET redirect_url == headers_get(resp.Location, <<>>) IN
         IF redirect_url # <<>>
         THEN [destination_url |-> redirect_url, status |-> "direct_redirect"]
         ELSE [destination_url |-> <<"NO_LOCATION_HEADER">>,
               status |-> "redirect_without_location"]
    ELSE IF resp.status_code = 404
    THEN [destination_url |-> <<"NOT_FOUND">>, status |-> "404_error"]
    ELSE [destination_url |-> <<"HTTP_" \o ToString(resp.status_code)>>,
          status |-> "http_error_" \o ToString(resp.status_code)]

EmptyBody == [phrases |-> {}, matches |-> <<>>]

Response(exc, status_code, Location, body) ==
    [exc |-> exc, status_code |-> status_code, Location |-> Location, body |-> body]

\* The responses the scan of the model meets: a transport failure, the two
\* not-found outcomes and a redirect.
ScanResponses ==
    { Response("Timeout", 0, None, EmptyBody),
      Response("none", 404, None, EmptyBody),
      Response("none", 200, None, [phrases |-> {"Dynamic Link Not Found"}, matches |-> <<>>]),
      Response("none", 301, <<"https://", "example.org", "/x">>, EmptyBody) }

\* ---------------------------------------------------------------- state
VARIABLES
    output_file,      \* the CSV file: [exists, readable, rows]
    pc,               \* where the running process is ("idle": none is running)
    run,              \* how many times main() has been started
    args,             \* the parsed command line of the current run
    skip_404, processed_count, found_count,       \* fields of the scanner
    start_from, start_index, found_start,         \* locals of scan_url_combinations
    current_index, url_suffix,
    pos,              \* how many tuples the itertools.product iterator has yielded
    response,         \* what session.get did in the last call of resolve_goo_gl_url
    result,           \* (destination_url, status) as returned by resolve_goo_gl_url
    requests,         \* the URLs session.get was called with in this run, in order
    outcomes,         \* what resolve_goo_gl_url returned in this run, in order
    n_saved,          \* how many calls of save_result have returned in this run
    n_lookups,        \* how many calls of _find_last_processed_url were made in this run
    n_requests,       \* the requests issued over all runs
    base_rows,        \* the number of rows of the file when the scanner was constructed
    reported          \* the last "Scan interrupted" / "Resume with" lines logged

vars == << output_file, pc, run, args, skip_404, processed_count, found_count,
           start_from, start_index, found_start, current_index, url_suffix, pos,
           response, result, requests, outcomes, n_saved, n_lookups, n_requests,
           base_rows, reported >>

NoIndex == -1
NoResponse == Response("none", 0, None, EmptyBody)
NoResult == [destination_url |-> None, status |-> "None"]
NoReport == [processed |-> 0, found |-> 0, resume |-> None, index |-> 0, run |-> 0]
NoArgs == [length |-> 1, start_from |-> None, test_url |-> None, no_404 |-> FALSE]

Absent == [exists |-> FALSE, readable |-> TRUE, rows |-> <<>>]
EmptyFile == [exists |-> TRUE, readable |-> TRUE, rows |-> <<>>]

Terminal == {"exhausted", "interrupted", "unbound_local_error",
             "keyboard_interrupt", "done", "os_error"}

Identifiers(length) == {product_nth(n, length) : n \in 0..(NumCombos(length) - 1)}

\* --start-from values: the identifiers of the scan length, the empty
\* string, an identifier one symbol too long and one holding a symbol
\* outside the alphabet.
Overrides(length) ==
    Identifiers(length)
        \cup { <<>>, [i \in 1..(length + 1) |-> chars[1]],
               [i \in 1..length |-> IF i = 1 THEN Dash ELSE chars[1]] }

\* --test-url values: two service URLs, two whose suffix holds a symbol
\* outside the alphabet, and one without a scheme.
TestUrls ==
    { ShortUrl(<<chars[1]>>), ShortUrl(<<Dash>>), ShortUrl(<<Dash, chars[1]>>),
      <<"goo.gl/", chars[1]>> }

Init ==
    /\ output_file \in {Absent, EmptyFile}
    /\ pc = "idle"
    /\ run = 0
    /\ args = NoArgs
    /\ skip_404 = FALSE
    /\ processed_count = 0
    /\ found_count = 0
    /\ start_from = None
    /\ start_index = NoIndex
    /\ found_start = FALSE
    /\ current_index = 0
    /\ url_suffix = Unbound
    /\ pos = 0
    /\ response = NoResponse
    /\ result = NoResult
    /\ requests = <<>>
    /\ outcomes = <<>>
    /\ n_saved = 0
    /\ n_lookups = 0
    /\ n_requests = 0
    /\ base_rows = 0
    /\ reported = NoReport

\* main() up to the construction of the scanner: __init__ and _initialize_csv.
Construct(a) ==
    /\ pc \in {"idle"} \cup Terminal
    /\ run < MaxRuns
    /\ run' = run + 1
    /\ args' = a
    /\ skip_404' = a.no_404
    /\ processed_count' = 0
    /\ found_count' = 0
    /\ output_file' = _initialize_csv(output_file)
    /\ base_rows' = Len(output_file'.rows)
    /\ start_from' = None
    /\ start_index' = NoIndex
    /\ found_start' = FALSE
    /\ current_index' = 0
    /\ url_suffix' = Unbound
    /\ pos' = 0
    /\ response' = NoResponse
    /\ result' = NoResult
    /\ outcomes' = <<>>
    /\ n_saved' = 0
    /\ n_lookups' = 0
    /\ UNCHANGED reported

\* main() without --test-url: scan_url_combinations is entered.
StartScan ==
    \E length \in 1..MaxLength, no_404 \in BOOLEAN :
      \E override \in {None} \cup Overrides(length) :
        /\ Construct([length |-> length, start_from |-> override,
                      test_url |-> None, no_404 |-> no_404])
        /\ pc' = "scan_begin"
        /\ requests' = <<>>
        /\ UNCHANGED n_requests

\* main() with --test-url, up to the session.get of resolve_goo_gl_url.
StartTest ==
    \E test_url \in TestUrls, no_404 \in BOOLEAN :
        /\ n_requests < MaxRequests
        /\ Construct([length |-> 1, start_from |-> None,
                      test_url |-> test_url, no_404 |-> no_404])
        /\ pc' = "test_resolve"
        /\ requests' = <<test_url>>
        /\ n_requests' = n_requests + 1

\* resume_start without the step to the next identifier (a faulty variant,
\* which C2 must detect).
resume_start_without_successor(f, override, length) ==
    IF override # None THEN override
    ELSE _find_last_processed_url(f, length)

\* The start position of scan_url_combinations: the override, else the
\* successor of the resume point, else None.
resume_start(f, override, length) ==
    IF override # None THEN override
    ELSE LET last == _find_last_processed_url(f, length) IN
         IF last # None /\ last # <<>>
         THEN LET next == _get_next_url_suffix(last, length) IN
              IF next # None /\ next # <<>> THEN next ELSE None
         ELSE last

\* scan_url_combinations up to the first evaluation of the for statement.
ScanBegin ==
    /\ pc = "scan_begin"
    /\ start_from' = resume_start(output_file, args.start_from, args.length)
    /\ start_index' = IF start_from' # None /\ start_from' # <<>>
                      THEN _url_suffix_to_index(start_from', args.length)
                      ELSE NoIndex
    /\ found_start' = (start_from' = None)
    /\ current_index' = 0
    /\ n_lookups' = IF args.start_from = None THEN n_lookups + 1 ELSE n_lookups
    /\ pc' = "loop"
    /\ UNCHANGED << output_file, run, args, skip_404, processed_count, found_count,
                    url_suffix, pos, result, requests, outcomes, n_saved,
                    n_requests, base_rows, reported,
                    response >>

\* One iteration that skips: the tuple is not the start position.
SkipAhead ==
    /\ pc = "loop"
    /\ pos < NumCombos(args.length)
    /\ ~found_start
    /\ product_nth(pos, args.length) # start_from
    /\ url_suffix' = product_nth(pos, args.length)
    /\ pos' = pos + 1
    /\ current_index' = current_index + 1
    /\ UNCHANGED << output_file, pc, run, args, skip_404, processed_count,
                    found_count, start_from, start_index, found_start, result,
                    requests, outcomes, n_saved, n_requests, base_rows, reported,
                    n_lookups,
                    response >>

\* One iteration up to the session.get of resolve_goo_gl_url, as long as
\* fewer than max_requests requests have been issued.
NextUrlWithin(max_requests) ==
    /\ pc = "loop"
    /\ pos < NumCombos(args.length)
    /\ found_start \/ product_nth(pos, args.length) = start_from
    /\ n_requests < max_requests
    /\ url_suffix' = product_nth(pos, args.length)
    /\ pos' = pos + 1
    /\ found_start' = TRUE
    /\ requests' = Append(requests, ShortUrl(url_suffix'))
    /\ n_requests' = n_requests + 1
    /\ pc' = "resolve"
    /\ UNCHANGED << output_file, run, args, skip_404, processed_count, found_count,
                    start_from, start_index, current_index, result, outcomes,
                    n_saved, base_rows, reported,
                    n_lookups,
                    response >>

NextUrl == NextUrlWithin(MaxRequests)

\* session.get returns or raises, one of the given responses, and
\* resolve_goo_gl_url returns.
ResolveWith(responses) ==
    /\ pc \in {"resolve", "test_resolve"}
    /\ \E resp \in responses :
          /\ response' = resp
          /\ result' = resolve_goo_gl_url(requests[Len(requests)], resp)
    /\ outcomes' = Append(outcomes, [short_url |-> requests[Len(requests)],
                                     status |-> result'.status])
    /\ pc' = IF pc = "resolve" THEN "save" ELSE "test_save"
    /\ UNCHANGED << output_file, run, args, skip_404, processed_count, found_count,
                    start_from, start_index, found_start, current_index, url_suffix,
                    pos, requests, n_saved, n_requests, base_rows, reported,
                    n_lookups >>

Resolve == ResolveWith(ScanResponses)

\* self.save_result(short_url, destination_url, status) in the loop
Save ==
    /\ pc = "save"
    /\ output_file' = save_result(output_file, skip_404, ShortUrl(url_suffix),
                                  result.destination_url, result.status)
    /\ n_saved' = n_saved + 1
    /\ pc' = "count"
    /\ UNCHANGED << run, args, skip_404, processed_count, found_count, start_from,
                    start_index, found_start, current_index, url_suffix, pos,
                    result, requests, outcomes, n_requests, base_rows, reported,
                    n_lookups,
                    response >>

\* Count taking every outcome as found (a faulty variant, which C20 must
\* detect).
Count_every_outcome_found ==
    /\ pc = "count"
    /\ processed_count' = processed_count + 1
    /\ found_count' = found_count + 1
    /\ current_index' = current_index + 1
    /\ pc' = "sleep"
    /\ UNCHANGED << output_file, run, args, skip_404, start_from, start_index,
                    found_start, url_suffix, pos, result, requests, outcomes,
                    n_saved, n_requests, base_rows, reported,
                    n_lookups,
                    response >>

\* The counters, and current_index += 1.
Count ==
    /\ pc = "count"
    /\ processed_count' = processed_count + 1
    /\ found_count' = IF result.status \notin {"link_not_found", "404_error"}
                      THEN found_count + 1 ELSE found_count
    /\ current_index' = current_index + 1
    /\ pc' = "sleep"
    /\ UNCHANGED << output_file, run, args, skip_404, start_from, start_index,
                    found_start, url_suffix, pos, result, requests, outcomes,
                    n_saved, n_requests, base_rows, reported,
                    n_lookups,
                    response >>

\* time.sleep(self.delay) returns.
Sleep ==
    /\ pc = "sleep"
    /\ pc' = "loop"
    /\ UNCHANGED << output_file, run, args, skip_404, processed_count, found_count,
                    start_from, start_index, found_start, current_index, url_suffix,
                    pos, result, requests, outcomes, n_saved, n_requests,
                    base_rows, reported,
                    n_lookups,
                    response >>

\* The iterator is exhausted: the for statement ends and the function returns.
Exhaust ==
    /\ pc = "loop"
    /\ pos = NumCombos(args.length)
    /\ pc' = "exhausted"
    /\ UNCHANGED << output_file, run, args, skip_404, processed_count, found_count,
                    start_from, start_index, found_start, current_index, url_suffix,
                    pos, result, requests, outcomes, n_saved, n_requests,
                    base_rows, reported,
                    n_lookups,
                    response >>

\* The report naming the tuple the iterator would yield next (a faulty
\* variant, which C7 must detect).
InterruptReport_next_tuple ==
    [processed |-> processed_count, found |-> found_count,
     resume |-> product_nth(pos % NumCombos(args.length), args.length),
     index |-> current_index, run |-> run]

\* What the except clause logs.
InterruptReport ==
    [processed |-> processed_count, found |-> found_count,
     resume |-> url_suffix, index |-> current_index, run |-> run]

\* KeyboardInterrupt raised inside the try statement of scan_url_combinations:
\* the except clause logs the counters and url_suffix, which is unbound when
\* no tuple has been drawn yet.
KeyboardInterruptInLoop ==
    /\ pc \in {"loop", "resolve", "save", "count", "sleep"}
    /\ IF url_suffix = Unbound
       THEN pc' = "unbound_local_error" /\ UNCHANGED reported
       ELSE pc' = "interrupted" /\ reported' = InterruptReport
    /\ UNCHANGED << output_file, run, args, skip_404, processed_count, found_count,
                    start_from, start_index, found_start, current_index, url_suffix,
                    pos, result, requests, outcomes, n_saved, n_requests, base_rows,
                    n_lookups,
                    response >>

\* KeyboardInterrupt raised outside that try statement: nothing catches it.
KeyboardInterruptUncaught ==
    /\ pc \in {"scan_begin", "test_resolve", "test_save"}
    /\ pc' = "keyboard_interrupt"
    /\ UNCHANGED << output_file, run, args, skip_404, processed_count, found_count,
                    start_from, start_index, found_start, current_index, url_suffix,
                    pos, result, requests, outcomes, n_saved, n_requests,
                    base_rows, reported,
                    n_lookups,
                    response >>

\* scanner.save_result(args.test_url, destination, status) in main()
TestSave ==
    /\ pc = "test_save"
    /\ output_file' = save_result(output_file, skip_404, args.test_url,
                                  result.destination_url, result.status)
    /\ n_saved' = n_saved + 1
    /\ pc' = "done"
    /\ UNCHANGED << run, args, skip_404, processed_count, found_count, start_from,
                    start_index, found_start, current_index, url_suffix, pos,
                    result, requests, outcomes, n_requests, base_rows, reported,
                    n_lookups,
                    response >>

Next ==
    \/ StartScan
    \/ StartTest
    \/ ScanBegin
    \/ SkipAhead
    \/ NextUrl
    \/ Resolve
    \/ Save
    \/ Count
    \/ Sleep
    \/ Exhaust
    \/ KeyboardInterruptInLoop
    \/ KeyboardInterruptUncaught
    \/ TestSave

Spec == Init /\ [][Next]_vars

\* ------------------------------------------------- a failing file append
\* open(self.output_file, 'a') or the write raises OSError (disk full, file
\* or directory no longer writable); neither save_result nor its callers
\* catch it.
SaveFails ==
    /\ pc \in {"save", "test_save"}
    /\ ~(skip_404 /\ result.status \in NotFoundStatuses)
    /\ pc' = "os_error"
    /\ UNCHANGED << output_file, run, args, skip_404, processed_count, found_count,
                    start_from, start_index, found_start, current_index, url_suffix,
                    pos, result, requests, outcomes, n_saved, n_requests,
                    base_rows, reported,
                    n_lookups,
                    response >>

NextFaults ==
    \/ Next
    \/ SaveFails

SpecFaults == Init /\ [][NextFaults]_vars

\* ------------------------------------- one scan, run without cancellation
\* The first run of the program is a scan; no KeyboardInterrupt is raised.
FirstScan == run = 0 /\ StartScan

\* The requests of one scan are never more than the identifiers of its length.
NextUrlLive == NextUrlWithin(NumCombos(MaxLength))

\* The statements of scan_url_combinations: the process executes the next
\* one, session.get returns or raises within its timeout and time.sleep
\* returns.
ScanStep ==
    \/ ScanBegin
    \/ SkipAhead
    \/ NextUrlLive
    \/ Resolve
    \/ Save
    \/ Count
    \/ Sleep
    \/ Exhaust

NextLive ==
    \/ FirstScan
    \/ ScanStep
    \/ SaveFails

SpecLive == Init /\ [][NextLive]_vars /\ WF_vars(ScanStep)

\* ------------------------------------------- the resume lookup on its own
\* Number of rows after the first line in the files the lookup is applied to.
MaxRecords == 3

Row(short_url) == <<short_url, <<"NOT_FOUND">>, "404_error", Timestamp>>

\* Rows a file can hold: records of identifiers of two lengths, a record
\* whose suffix is outside the alphabet, a blank line, a row whose first
\* field is no service URL and a row cut after its first field.
SampleRows ==
    { Row(ShortUrl(<<"a">>)), Row(ShortUrl(<<"b">>)),
      Row(ShortUrl(<<"a", "a">>)), Row(ShortUrl(<<"b", "a">>)),
      Row(ShortUrl(<<Dash>>)), <<>>, << <<"goo.gl/", "a">> >>,
      << ShortUrl(<<"a">>) >> }

RECURSIVE SeqsUpTo(_, _)
SeqsUpTo(S, n) ==
    IF n = 0 THEN {<<>>}
    ELSE LET shorter == SeqsUpTo(S, n - 1) IN
         shorter \cup {Append(q, x) : q \in shorter, x \in S}

LedgerFiles ==
    {Absent}
        \cup { [exists |-> TRUE, readable |-> r, rows |-> <<Header>> \o recs] :
                 r \in BOOLEAN, recs \in SeqsUpTo(SampleRows, MaxRecords) }
        \cup { [exists |-> TRUE, readable |-> TRUE, rows |-> recs] :
                 recs \in SeqsUpTo(SampleRows, MaxRecords) }

InitLedger ==
    /\ output_file \in LedgerFiles
    /\ pc \in {"lookup", "scan_begin"}
    /\ run = 1
    /\ args \in {[length |-> l, start_from |-> None, test_url |-> None, no_404 |-> FALSE] :
                   l \in 1..MaxLength}
    /\ skip_404 = FALSE
    /\ processed_count = 0
    /\ found_count = 0
    /\ start_from = None
    /\ start_index = NoIndex
    /\ found_start = FALSE
    /\ current_index = 0
    /\ url_suffix = Unbound
    /\ pos = 0
    /\ response = NoResponse
    /\ result = NoResult
    /\ requests = <<>>
    /\ outcomes = <<>>
    /\ n_saved = 0
    /\ n_lookups = 0
    /\ n_requests = 0
    /\ base_rows = Len(output_file.rows)
    /\ reported = NoReport

\* start_from = self._find_last_processed_url(length)
Lookup ==
    /\ pc = "lookup"
    /\ start_from' = _find_last_processed_url(output_file, args.length)
    /\ n_lookups' = n_lookups + 1
    /\ pc' = "looked_up"
    /\ UNCHANGED << output_file, run, args, skip_404, processed_count, found_count,
                    start_index, found_start, current_index, url_suffix, pos,
                    result, requests, outcomes, n_saved, n_requests, base_rows,
                    reported,
                    response >>

\* The lookup alone, or as scan_url_combinations makes it: up to the first
\* request of the scan.
NextLedger ==
    \/ Lookup
    \/ ScanBegin
    \/ SkipAhead
    \/ NextUrl

SpecLedger == InitLedger /\ [][NextLedger]_vars

\* --------------------------------------- resolve_goo_gl_url on its own
\* Number of places of a page where an expression of the extractor matches.
MaxMatches == 2

NotFoundMarkers == {"Dynamic Link Not Found", "not found"}
WarningMarkers == {"This link will no longer work",
                   "goo.gl links will no longer function"}

\* Status codes: 200, the five redirects of the code, two other 3xx, 404
\* and two others.
StatusCodes == {200, 204, 300, 301, 302, 303, 304, 307, 308, 404, 500}

Locations == {None, <<>>, <<"https://", "example.org", "/x">>}

TransportFailures ==
    { Response(e, 0, None, EmptyBody) :
        e \in {"Timeout", "ConnectionError", "RequestException"} }

\* Captured texts: a destination; one on a domain of skip_domains, plain, in
\* upper case and with a character written as an HTML entity; a destination
\* with an upper-case scheme; one shorter than 10 characters; a destination
\* with blanks around it, a percent escape and an entity; one whose length
\* drops under 10 when its entity is decoded; a relative link.
SampleTexts ==
    { <<"https://", "example.org", "/x">>,
      <<"https://", "gstatic.com", "/x">>,
      <<"https://", "GSTATIC.COM", "/x">>,
      <<"https://", "gst&#97;tic.com", "/x">>,
      <<"HTTPS://", "example.org", "/x">>,
      <<"http://", "/x">>,
      <<" ", "https://", "example.org", "%3D", "&amp;", " ">>,
      <<"http://", "&amp;">>,
      <<"/x">> }

\* Places: a text captured by the first or the second pattern, or by none.
SampleMatches ==
    { [pattern |-> p, text |-> t] : p \in {0, 1, 2}, t \in SampleTexts }

\* Pages: every combination of marker phrases, without and with a captured
\* destination; and warning pages with up to MaxMatches places.
MarkerBodies ==
    { [phrases |-> ph, matches |-> m] :
        ph \in SUBSET (NotFoundMarkers \cup WarningMarkers),
        m \in { <<>>, <<[pattern |-> 1, text |-> <<"https://", "example.org", "/x">>]>> } }

WarningBodies ==
    { [phrases |-> {"This link will no longer work"}, matches |-> m] :
        m \in SeqsUpTo(SampleMatches, MaxMatches) }

ResolveResponses ==
    TransportFailures
        \cup { Response("none", c, l, b) :
                 c \in StatusCodes, l \in Locations, b \in MarkerBodies }
        \cup { Response("none", 200, None, b) : b \in WarningBodies }

\* main() with --test-url, on a new file, at the session.get of
\* resolve_goo_gl_url.
InitResolve ==
    /\ output_file = _initialize_csv(Absent)
    /\ pc = "test_resolve"
    /\ run = 1
    /\ args \in {[length |-> 1, start_from |-> None, test_url |-> t, no_404 |-> FALSE] :
                   t \in TestUrls}
    /\ skip_404 = FALSE
    /\ processed_count = 0
    /\ found_count = 0
    /\ start_from = None
    /\ start_index = NoIndex
    /\ found_start = FALSE
    /\ current_index = 0
    /\ url_suffix = Unbound
    /\ pos = 0
    /\ response = NoResponse
    /\ result = NoResult
    /\ requests = <<args.test_url>>
    /\ outcomes = <<>>
    /\ n_saved = 0
    /\ n_lookups = 0
    /\ n_requests = 1
    /\ base_rows = 1
    /\ reported = NoReport

\* destination, status = scanner.resolve_goo_gl_url(args.test_url), and the
\* save_result that follows
Classify == ResolveWith(ResolveResponses)

NextResolve ==
    \/ Classify
    \/ TestSave

SpecResolve == InitResolve /\ [][NextResolve]_vars

\* ------------------------------------------------ the sequencer on its own
\* Strings the sequencer is applied to: all strings of up to length + 1
\* symbols over the alphabet and a symbol outside it.
SequencerInputs(length) == SeqsUpTo(Range(chars) \cup {Dash}, length + 1)

\* args.start_from holds the string given, start_from the string reached
\* from it, pos the number of calls of _get_next_url_suffix made on the way.
InitSequencer ==
    /\ output_file = Absent
    /\ pc = "sequencer"
    /\ run = 1
    /\ \E l \in 1..MaxLength :
          \E x \in SequencerInputs(l) :
             args = [length |-> l, start_from |-> x, test_url |-> None, no_404 |-> FALSE]
    /\ skip_404 = FALSE
    /\ processed_count = 0
    /\ found_count = 0
    /\ start_from = args.start_from
    /\ start_index = NoIndex
    /\ found_start = FALSE
    /\ current_index = 0
    /\ url_suffix = Unbound
    /\ pos = 0
    /\ response = NoResponse
    /\ result = NoResult
    /\ requests = <<>>
    /\ outcomes = <<>>
    /\ n_saved = 0
    /\ n_lookups = 0
    /\ n_requests = 0
    /\ base_rows = 0
    /\ reported = NoReport

\* start_from = self._get_next_url_suffix(start_from, chars, length)
Successor ==
    /\ pc = "sequencer"
    /\ start_from # None
    /\ start_from' = _get_next_url_suffix(start_from, args.length)
    /\ start_index' = NoIndex
    /\ pos' = pos + 1
    /\ UNCHANGED << output_file, pc, run, args, skip_404, processed_count,
                    found_count, found_start, current_index, url_suffix, response,
                    result, requests, outcomes, n_saved, n_lookups, n_requests,
                    base_rows, reported >>

\* start_index = self._url_suffix_to_index(start_from, chars, length)
Encode ==
    /\ pc = "sequencer"
    /\ start_from # None
    /\ start_index = NoIndex
    /\ start_index' = _url_suffix_to_index(start_from, args.length)
    /\ UNCHANGED << output_file, pc, run, args, skip_404, processed_count,
                    found_count, start_from, found_start, current_index, url_suffix,
                    pos, response, result, requests, outcomes, n_saved, n_lookups,
                    n_requests, base_rows, reported >>

NextSequencer ==
    \/ Successor
    \/ Encode

SpecSequencer == InitSequencer /\ [][NextSequencer]_vars

\* =============================================================== claims
ScanMode == run > 0 /\ args.test_url = None
TestMode == run > 0 /\ args.test_url # None

\* The rows appended since the scanner of the current run was constructed.
AppendedRows == SubSeq(output_file.rows, base_rows + 1, Len(output_file.rows))

\* The file as the scanner of the current run found it after construction.
FileAtConstruction ==
    [output_file EXCEPT !.rows = SubSeq(output_file.rows, 1, base_rows)]

IsIdentifier(x, length) ==
    Len(x) = length /\ \A i \in 1..Len(x) : x[i] \in Range(chars)

\* The position of an identifier in the enumeration of the scan loop.
Ordinal(x, length) ==
    CHOOSE n \in 0..(NumCombos(length) - 1) : product_nth(n, length) = x

ZeroId(length) == [i \in 1..length |-> chars[1]]
MaxId(length) == [i \in 1..length |-> chars[Len(chars)]]

IsPrefix(s, t) == Len(s) <= Len(t) /\ SubSeq(t, 1, Len(s)) = s

SetMax(S) == CHOOSE m \in S : \A k \in S : k <= m

\* The identifier of a record: what follows the service prefix of its first field.
HasIdentifier(row) == Len(row) >= 1 /\ Contains(row[1], SEP)
RecordId(row) == SplitLast(row[1])

\* A ledger: a readable file whose first line is the header row.
IsLedger(f) == f.exists /\ f.readable /\ f.rows # <<>> /\ f.rows[1] = Header

MatchingRecords(records, length) ==
    {i \in 1..Len(records) :
        HasIdentifier(records[i]) /\ StrLen(RecordId(records[i])) = length}

LastRecordOfLength(records, length) ==
    IF MatchingRecords(records, length) = {} THEN None
    ELSE RecordId(records[SetMax(MatchingRecords(records, length))])

\* C1: applied to a ledger (the header row followed by any records) and a
\* length L, _find_last_processed_url returns the identifier of the last
\* record in file order whose identifier has length L, whatever the ordinals
\* of the records, and None when no record has an identifier of length L.
C1_LastInFileOrder ==
    (pc = "looked_up" /\ IsLedger(output_file))
        => start_from = LastRecordOfLength(Tail(output_file.rows), args.length)

\* A later record with a smaller ordinal has won over an earlier, larger one.
C1_Witness ==
    /\ pc = "looked_up"
    /\ IsLedger(output_file)
    /\ \E i, j \in 2..Len(output_file.rows) :
          /\ i < j
          /\ HasIdentifier(output_file.rows[i])
          /\ IsIdentifier(RecordId(output_file.rows[i]), args.length)
          /\ IsIdentifier(start_from, args.length)
          /\ Ordinal(RecordId(output_file.rows[i]), args.length)
                > Ordinal(start_from, args.length)
          /\ HasIdentifier(output_file.rows[j])
          /\ RecordId(output_file.rows[j]) = start_from

\* What a resume point is followed by in the enumeration.
SuccessorByOrdinal(x, length) == product_nth(Ordinal(x, length) + 1, length)

ResumePoint == _find_last_processed_url(FileAtConstruction, args.length)

\* C2 as stated: the first identifier resolved is the override when one is
\* given, else the successor of the resume point, and ordinal 0 only when
\* there is no record of the length or the resume point is the maximal
\* identifier.
C2_Original ==
    (ScanMode /\ requests # <<>>)
        => requests[1] = ShortUrl(
              IF args.start_from # None THEN args.start_from
              ELSE IF ResumePoint = None \/ ResumePoint = MaxId(args.length)
                   THEN ZeroId(args.length)
                   ELSE _get_next_url_suffix(ResumePoint, args.length))

\* C2 (amended): the first identifier a scan resolves is the override when
\* one is given; else the identifier following the resume point in the
\* enumeration, when the resume point is an identifier other than the
\* maximal one; else ordinal 0: when there is no resume point, when it is the
\* maximal identifier, and when it holds a symbol outside the alphabet.
C2_FirstResolved ==
    (ScanMode /\ requests # <<>>)
        => /\ args.start_from # None => n_lookups = 0
           /\ requests[1] = ShortUrl(
              IF args.start_from # None THEN args.start_from
              ELSE IF ResumePoint = None THEN ZeroId(args.length)
              ELSE IF IsIdentifier(ResumePoint, args.length)
                        /\ ResumePoint # MaxId(args.length)
                   THEN SuccessorByOrdinal(ResumePoint, args.length)
                   ELSE ZeroId(args.length))

\* A scan without override has resumed after a recorded identifier.
C2_Witness ==
    /\ ScanMode
    /\ requests # <<>>
    /\ args.start_from = None
    /\ ResumePoint # None
    /\ IsIdentifier(ResumePoint, args.length)
    /\ ResumePoint # MaxId(args.length)
    /\ requests[1] # ShortUrl(ZeroId(args.length))

\* The start position is absent or an identifier of the scan length.
ValidStart == start_from = None \/ IsIdentifier(start_from, args.length)

StartOrdinal == IF start_from = None THEN 0 ELSE start_index

\* C3: in a scan whose start position is an identifier with ordinal s (0
\* without one), the i-th request is for the identifier with ordinal
\* s + i - 1; when the loop ends by exhaustion, the identifiers with ordinals
\* s .. N - 1 have each been requested once; and every row the run appends
\* is of a requested identifier.
C3_AscendingFromStart ==
    (ScanMode /\ pc # "scan_begin" /\ ValidStart)
        => /\ \A i \in 1..Len(requests) :
                 /\ requests[i] = ShortUrl(SplitLast(requests[i]))
                 /\ IsIdentifier(SplitLast(requests[i]), args.length)
                 /\ _url_suffix_to_index(SplitLast(requests[i]), args.length)
                       = StartOrdinal + i - 1
           /\ pc = "exhausted"
                 => Len(requests) = NumCombos(args.length) - StartOrdinal
           /\ \A k \in 1..Len(AppendedRows) :
                 \E i \in 1..Len(requests) : AppendedRows[k][1] = requests[i]

\* A scan that started past ordinal 0 has run to exhaustion.
C3_Witness ==
    /\ ScanMode
    /\ pc = "exhausted"
    /\ start_from # None
    /\ ValidStart
    /\ StartOrdinal > 0
    /\ Len(requests) >= 2

KeptOutcomes ==
    SelectSeq(SubSeq(outcomes, 1, n_saved),
              LAMBDA o : ~(skip_404 /\ o.status \in NotFoundStatuses))

\* C4: in a scan with skip_404 set no row appended by the scanner has status
\* 404_error or link_not_found; at every iteration boundary processed_count
\* is the number of outcomes and found_count the number of those outside the
\* not-found set; the rows appended are, in order, the outcomes saved so far
\* (all of them with skip_404 unset, those outside the not-found set with it set).
C4_SkipNotFound ==
    ScanMode
        => /\ skip_404 => \A k \in 1..Len(AppendedRows) :
                              AppendedRows[k][3] \notin NotFoundStatuses
           /\ pc \in {"loop", "sleep", "exhausted"}
                 => /\ processed_count = Len(outcomes)
                    /\ found_count = Cardinality({i \in 1..Len(outcomes) :
                                        outcomes[i].status \notin NotFoundStatuses})
           /\ Len(AppendedRows) = Len(KeptOutcomes)
           /\ \A k \in 1..Len(AppendedRows) :
                 /\ AppendedRows[k][1] = KeptOutcomes[k].short_url
                 /\ AppendedRows[k][3] = KeptOutcomes[k].status
           /\ ~skip_404 => Len(AppendedRows) = n_saved

\* With skip_404 set, a not-found outcome was counted and not appended.
C4_Witness ==
    /\ ScanMode
    /\ skip_404
    /\ pc = "sleep"
    /\ processed_count = 2
    /\ found_count = 1
    /\ Len(AppendedRows) = 1

\* C5: every step leaves the rows already in the file in place as a prefix
\* and never shortens the file; an existing file stays; the header row is
\* written only by the step that creates an absent file, as its first row.
C5_AppendOnly ==
    [][ /\ output_file.exists => output_file'.exists
        /\ IsPrefix(output_file.rows, output_file'.rows)
        /\ \A i \in (Len(output_file.rows) + 1)..Len(output_file'.rows) :
              output_file'.rows[i] = Header => (~output_file.exists /\ i = 1)
        /\ (~output_file.exists /\ output_file'.exists)
              => output_file'.rows = <<Header>> ]_vars

\* A second process has appended after the records of the first.
C5_Witness ==
    /\ run = 2
    /\ base_rows >= 2
    /\ Len(output_file.rows) > base_rows

\* C6: the identifier the interrupted scan reports is the exact one to
\* resume from: a scan restarted with it as override does not resolve again
\* an identifier whose outcome the file already holds.
C6_ReportedIdentifierIsExact ==
    (ScanMode /\ reported # NoReport /\ reported.run = run - 1
        /\ args.start_from = reported.resume)
        => \A i \in 1..Len(requests) :
              \A j \in 1..base_rows : output_file.rows[j][1] # requests[i]

C8_EndsByCancellationOrExhaustion ==
    (ScanMode /\ pc \in Terminal)
        => pc \in {"exhausted", "interrupted", "unbound_local_error",
                   "keyboard_interrupt"}

\* C9 as stated: single-test mode appends exactly one row, whatever the
\* configuration and the outcome.
C9_Original ==
    (TestMode /\ pc = "done")
        => Len(requests) = 1 /\ Len(AppendedRows) = 1

\* C9 (amended): single-test mode makes exactly one request, for the URL
\* given, and appends exactly one row holding its outcome, except that with
\* skip_404 set an outcome 404_error or link_not_found is not appended; the
\* resume lookup, the sequencer and the counters are not used.
C9_SingleTest ==
    (TestMode /\ pc = "done")
        => /\ requests = <<args.test_url>>
           /\ Len(outcomes) = 1
           /\ AppendedRows =
                 IF skip_404 /\ result.status \in NotFoundStatuses
                 THEN <<>>
                 ELSE << <<args.test_url, result.destination_url,
                           result.status, Timestamp>> >>
           /\ start_from = None
           /\ start_index = NoIndex
           /\ url_suffix = Unbound
           /\ pos = 0
           /\ n_lookups = 0
           /\ processed_count = 0

\* Single-test mode has appended its row with skip_404 set.
C9_Witness ==
    /\ TestMode
    /\ pc = "done"
    /\ skip_404
    /\ Len(AppendedRows) = 1

InvalidOverride ==
    args.start_from # None /\ ~IsIdentifier(args.start_from, args.length)

\* C10: with an invalid override the scan does not start: no tuple is drawn
\* from the enumeration, no request is made, no row is appended, and the
\* scan does not run to its normal end.
C10_InvalidOverrideRejected ==
    (ScanMode /\ InvalidOverride)
        => /\ pos = 0
           /\ pc # "exhausted"
           /\ requests = <<>>
           /\ AppendedRows = <<>>

\* No row after the first line of the file is a record of the length.
NoRecordOfLength(f, length) ==
    \/ ~f.exists
    \/ ~f.readable
    \/ f.rows = <<>>
    \/ MatchingRecords(Tail(f.rows), length) = {}

\* A row with a field missing, or whose first field is no service URL.
MalformedRow(row) == Len(row) < 4 \/ ~HasIdentifier(row)

\* The stores the claim lists: absent, unreadable, empty, the header alone,
\* the header followed by malformed rows only.
ListedStore(f) ==
    \/ ~f.exists
    \/ ~f.readable
    \/ f.rows = <<>>
    \/ /\ f.rows[1] = Header
       /\ \A i \in 2..Len(f.rows) : MalformedRow(f.rows[i])

\* C11 as stated: on each of the listed stores the lookup yields None.
C11_Original ==
    (pc = "looked_up" /\ ListedStore(output_file)) => start_from = None

\* C11 (amended): the lookup and the start of the scan leave the file as it
\* is and end normally on every store; the lookup yields None exactly when
\* the file is absent, unreadable, empty or has, after its first line, no row
\* whose first field is a service URL with an identifier of the length (a row
\* cut after such a first field is a record); the scan then has no start
\* position and its first request is for ordinal 0.
C11_LookupDegrades ==
    [][ /\ output_file' = output_file
        /\ (pc = "lookup")
              => /\ pc' = "looked_up"
                 /\ (start_from' = None) <=> NoRecordOfLength(output_file, args.length)
        /\ (pc = "scan_begin")
              => /\ pc' = "loop"
                 /\ NoRecordOfLength(output_file, args.length)
                       => (start_from' = None /\ found_start' /\ start_index' = NoIndex)
        /\ (pc = "loop" /\ pc' = "resolve" /\ NoRecordOfLength(output_file, args.length))
              => requests' = <<ShortUrl(ZeroId(args.length))>> ]_vars

\* A scan over an unreadable file that holds a record of the length, and one
\* over a file whose only record stands on the first line, has made its
\* first request.
C11_Witness ==
    /\ pc = "resolve"
    /\ output_file.exists
    /\ output_file.rows # <<>>
    /\ HasIdentifier(output_file.rows[Len(output_file.rows)])
    /\ StrLen(RecordId(output_file.rows[Len(output_file.rows)])) = args.length
    /\ ~output_file.readable \/ Len(output_file.rows) = 1
    /\ requests = <<ShortUrl(ZeroId(args.length))>>

Outcome(destination, status) == [destination_url |-> destination, status |-> status]

HasMarker(resp, markers) == resp.body.phrases \cap markers # {}

\* The rules of the classifier for a response that arrived, in the order of
\* the chain: redirect, 404, 200 with a not-found marker, 200 with a warning
\* marker, other 200, other status.
ChainRules(short_url, resp) ==
    << [applies |-> resp.status_code \in {301, 302, 303, 307, 308},
        gives |-> IF resp.Location # None /\ resp.Location # <<>>
                  THEN Outcome(resp.Location, "direct_redirect")
                  ELSE Outcome(<<"NO_LOCATION_HEADER">>, "redirect_without_location")],
       [applies |-> resp.status_code = 404,
        gives |-> Outcome(<<"NOT_FOUND">>, "404_error")],
       [applies |-> resp.status_code = 200 /\ HasMarker(resp, NotFoundMarkers),
        gives |-> Outcome(<<"NOT_FOUND">>, "link_not_found")],
       [applies |-> resp.status_code = 200 /\ HasMarker(resp, WarningMarkers),
        gives |-> IF _extract_redirect_from_warning_page(resp.body) # None
                  THEN Outcome(_extract_redirect_from_warning_page(resp.body),
                               "resolved_from_warning")
                  ELSE Outcome(<<"WARNING_PAGE_NO_EXTRACT">>, "warning_page_parse_failed")],
       [applies |-> resp.status_code = 200,
        gives |-> Outcome(short_url, "direct_200")],
       [applies |-> TRUE,
        gives |-> Outcome(<<"HTTP_" \o ToString(resp.status_code)>>,
                          "http_error_" \o ToString(resp.status_code))] >>

FirstMatchingRule(short_url, resp) ==
    LET rules == ChainRules(short_url, resp)
        first == CHOOSE i \in 1..Len(rules) :
                    rules[i].applies /\ \A j \in 1..(i - 1) : ~rules[j].applies
    IN rules[first].gives

Classified == pc \in {"test_save", "done"} /\ response.exc = "none"

\* C12: for every response that arrives (status code; Location present,
\* empty or absent; any combination of not-found and warning markers;
\* extraction succeeding or failing) resolve_goo_gl_url returns the outcome
\* of the first rule of the chain that applies; a 200 page with both kinds
\* of marker gives (NOT_FOUND, link_not_found), a 301 with Location U gives
\* (U, direct_redirect), an empty or absent Location gives
\* (NO_LOCATION_HEADER, redirect_without_location).
C12_FirstMatchingRule ==
    Classified
        => /\ result = FirstMatchingRule(requests[1], response)
           /\ (response.status_code = 200
                 /\ HasMarker(response, NotFoundMarkers)
                 /\ HasMarker(response, WarningMarkers))
                 => result = Outcome(<<"NOT_FOUND">>, "link_not_found")
           /\ (response.status_code = 301
                 /\ response.Location # None /\ response.Location # <<>>)
                 => result = Outcome(response.Location, "direct_redirect")

\* A 200 page holding a not-found marker, a warning marker and a destination
\* the extractor would return has been classified.
C12_Witness ==
    /\ Classified
    /\ response.status_code = 200
    /\ HasMarker(response, NotFoundMarkers)
    /\ HasMarker(response, WarningMarkers)
    /\ _extract_redirect_from_warning_page(response.body) # None
    /\ result.status = "link_not_found"

TransportFailure == response.exc \in {"Timeout", "ConnectionError", "RequestException"}

\* C13 as stated: the tags are timeout, connection_error and request_exception.
C13_Original ==
    (pc \in {"test_save", "done"} /\ TransportFailure)
        => result.status =
              CASE response.exc = "Timeout" -> "timeout"
                [] response.exc = "ConnectionError" -> "connection_error"
                [] response.exc = "RequestException" -> "request_exception"

\* C13 (amended): on a transport failure resolve_goo_gl_url returns
\* (TIMEOUT, request_timeout) for a timeout, (CONNECTION_ERROR,
\* connection_failed) for a connection failure and ("REQUEST_ERROR: " followed
\* by the text of the exception, request_exception) for any other transport
\* exception; the row save_result appends holds that destination and that
\* tag, and no response that arrived gets one of the three tags.
C13_TransportTags ==
    /\ (pc \in {"test_save", "done"} /\ TransportFailure)
          => result =
                CASE response.exc = "Timeout" ->
                        Outcome(<<"TIMEOUT">>, "request_timeout")
                  [] response.exc = "ConnectionError" ->
                        Outcome(<<"CONNECTION_ERROR">>, "connection_failed")
                  [] response.exc = "RequestException" ->
                        Outcome(<<"REQUEST_ERROR: ", "str(e)">>, "request_exception")
    /\ (pc = "done" /\ TransportFailure)
          => AppendedRows = << <<args.test_url, result.destination_url,
                                 result.status, Timestamp>> >>
    /\ (pc \in {"test_save", "done"} /\ ~TransportFailure)
          => result.status \notin {"request_timeout", "connection_failed",
                                   "request_exception"}

\* The outcome of a connection failure has reached the file.
C13_Witness ==
    /\ pc = "done"
    /\ response.exc = "ConnectionError"
    /\ Len(AppendedRows) = 1
    /\ AppendedRows[1][3] = "connection_failed"

\* The host of a URL of the model is the token after the scheme.
Host(url) == IF Len(url) >= 2 THEN url[2] ELSE ""

DenyListed(host) == lower(host) \in skip_domains

\* The rule of the claim, applied to a URL as returned.
ValidDestination(url) ==
    /\ UrlLen(url) >= 10
    /\ url # <<>>
    /\ Head(url) \in {"http://", "https://"}
    /\ ~DenyListed(Host(url))

WarningPage ==
    /\ response.exc = "none"
    /\ response.status_code = 200
    /\ ~HasMarker(response, NotFoundMarkers)
    /\ HasMarker(response, WarningMarkers)

\* C14: a URL returned by the extractor, through either tier, has as
\* returned at least 10 characters, begins with http:// or https:// and has a
\* host outside the deny-list; a warning page whose only URL is on a
\* deny-listed domain is classified (WARNING_PAGE_NO_EXTRACT,
\* warning_page_parse_failed).
C14_ReturnedUrlIsValid ==
    (pc \in {"test_save", "done"} /\ WarningPage)
        => /\ result.status = "resolved_from_warning"
                 => ValidDestination(result.destination_url)
           /\ (Len(response.body.matches) = 1
                 /\ response.body.matches[1].text = <<"https://", "gstatic.com", "/x">>)
                 => result = Outcome(<<"WARNING_PAGE_NO_EXTRACT">>,
                                     "warning_page_parse_failed")

\* The places of a page where a strategy-specific pattern matches and the
\* decoded capture is valid; those where the bare-URL scan matches and the
\* token, as returned, is valid.
ValidSpecific(body) ==
    {i \in 1..Len(body.matches) :
        body.matches[i].pattern >= 1
          /\ ValidDestination(decoded(body.matches[i].text))}

BareTokens(body) ==
    {i \in 1..Len(body.matches) :
        body.matches[i].text # <<>>
          /\ lower(Head(body.matches[i].text)) \in {"http://", "https://"}}

ValidBare(body) ==
    {i \in BareTokens(body) :
        ValidDestination(MapTokens(unescape, body.matches[i].text))}

\* The first valid candidate: by strategy first and place second in the
\* specific tier, by place in the fallback tier.
FirstValidCandidate(body) ==
    IF ValidSpecific(body) # {}
    THEN LET first == CHOOSE i \in ValidSpecific(body) :
                         \A j \in ValidSpecific(body) :
                            \/ body.matches[i].pattern < body.matches[j].pattern
                            \/ /\ body.matches[i].pattern = body.matches[j].pattern
                               /\ i <= j
         IN decoded(body.matches[first].text)
    ELSE IF ValidBare(body) # {}
    THEN LET first == CHOOSE i \in ValidBare(body) : \A j \in ValidBare(body) : i <= j
         IN MapTokens(unescape, body.matches[first].text)
    ELSE None

\* C15: the extractor returns the first valid candidate of the strategies in
\* their priority order, whatever the places of the matches in the page;
\* the bare-URL scan is used only when no strategy-specific match is valid,
\* applies the same rule and returns its first valid token; the result is
\* None exactly when neither tier has a valid candidate.
C15_FirstValidCandidate ==
    (pc \in {"test_save", "done"} /\ WarningPage)
        => result =
              IF FirstValidCandidate(response.body) = None
              THEN Outcome(<<"WARNING_PAGE_NO_EXTRACT">>, "warning_page_parse_failed")
              ELSE Outcome(FirstValidCandidate(response.body), "resolved_from_warning")

\* C16: for every identifier x of length L, _get_next_url_suffix applied k
\* times from x gives the identifier with ordinal encode(x) + k, the k-th
\* element after x in the enumeration of the scan loop, as long as that
\* ordinal exists; applied to the maximal identifier it gives None.  So
\* N - 1 applications from the identifier of ordinal 0 reach the maximal
\* identifier and one more gives None.
C16_SuccessorIsNextOrdinal ==
    (pc = "sequencer" /\ IsIdentifier(args.start_from, args.length))
        => LET length == args.length
               k == _url_suffix_to_index(args.start_from, length) + pos
           IN /\ k <= NumCombos(length)
              /\ k < NumCombos(length)
                    => /\ start_from = product_nth(k, length)
                       /\ _url_suffix_to_index(start_from, length) = k
                       /\ start_index # NoIndex => start_index = k
              /\ k = NumCombos(length) - 1 => start_from = MaxId(length)
              /\ k = NumCombos(length) => start_from = None

\* The walk from the identifier of ordinal 0 of the longest length has
\* passed the maximal identifier.
C16_Witness ==
    /\ pc = "sequencer"
    /\ args.length = MaxLength
    /\ args.start_from = ZeroId(MaxLength)
    /\ pos = NumCombos(MaxLength)
    /\ start_from = None

\* C17: for the length L of the scan, _url_suffix_to_index maps the n-th
\* identifier of the enumeration to n, for every n in 0 .. N - 1: it is a
\* bijection onto 0 .. N - 1, strictly monotonic in enumeration order, and
\* the enumeration gives back x at position encode(x) (stated where the loop
\* is entered).  In a scan whose start position is an identifier, the start
\* index computed before the loop is its position: while skipping,
\* current_index counts the tuples passed and stays at or below it, and when
\* the start position is found current_index equals it.
C17_EncodeIsPosition ==
    (ScanMode /\ pc # "scan_begin")
        => LET length == args.length IN
           /\ (pc = "loop" /\ pos = 0)
                 => /\ \A n \in 0..(NumCombos(length) - 1) :
                          _url_suffix_to_index(product_nth(n, length), length) = n
                    /\ \A x, y \in Identifiers(length) :
                          /\ (Ordinal(x, length) < Ordinal(y, length))
                                <=> (_url_suffix_to_index(x, length)
                                       < _url_suffix_to_index(y, length))
                          /\ _url_suffix_to_index(x, length) \in 0..(NumCombos(length) - 1)
                          /\ product_nth(_url_suffix_to_index(x, length), length) = x
           /\ (start_from # None /\ IsIdentifier(start_from, length))
                 => /\ start_index = Ordinal(start_from, length)
                    /\ product_nth(start_index, length) = start_from
                    /\ ~found_start => (current_index = pos /\ current_index <= start_index)
                    /\ (found_start /\ Len(requests) = 1 /\ pc = "resolve")
                          => (current_index = start_index /\ url_suffix = start_from)

\* The start position, of ordinal 2 at least, has just been found.
C17_Witness ==
    /\ ScanMode
    /\ pc = "resolve"
    /\ start_from # None
    /\ IsIdentifier(start_from, args.length)
    /\ start_index >= 2
    /\ found_start
    /\ Len(requests) = 1
    /\ current_index = start_index

\* The previous run was a scan of the length of the current one that was
\* interrupted between two iterations: it had fully processed the identifiers
\* up to and including reported.resume, which is not the maximal one.
StoppedAfter(x) ==
    /\ reported # NoReport
    /\ reported.run = run - 1
    /\ reported.resume = x
    /\ reported.processed >= 1
    /\ IsIdentifier(x, args.length)
    /\ reported.index = _url_suffix_to_index(x, args.length) + 1
    /\ x # MaxId(args.length)

\* C18: when a scan of length L has stopped after fully processing the
\* identifiers up to and including x, the first identifier resolved by a
\* following scan of length L without override is the successor of x,
\* whatever the skip_404 flags and the outcomes.
C18_CursorFromLedger ==
    (ScanMode /\ args.start_from = None /\ requests # <<>>
        /\ StoppedAfter(reported.resume))
        => requests[1] = ShortUrl(SuccessorByOrdinal(reported.resume, args.length))

\* C19: without cancellation a scan that has started reaches the exhausted
\* state, whatever its start position and the outcomes of its requests; once
\* it is exhausted no request is made and no row is appended.
C19_EventuallyExhausted ==
    /\ (ScanMode /\ pc = "scan_begin") ~> (pc = "exhausted")
    /\ [][ pc = "exhausted"
             => (requests' = requests /\ output_file' = output_file) ]_vars

\* Between two iterations of the loop, and after the last one.
IterationBoundary == ScanMode /\ pc \in {"loop", "sleep", "exhausted"}

FoundOutcomes == {i \in 1..Len(outcomes) : outcomes[i].status \notin NotFoundStatuses}

CountersAgree ==
    /\ 0 <= found_count
    /\ found_count <= processed_count
    /\ processed_count = Len(requests)
    /\ processed_count = Len(outcomes)
    /\ found_count = Cardinality(FoundOutcomes)
    /\ Len(AppendedRows) = IF skip_404 THEN found_count ELSE processed_count

\* C20: at every iteration boundary of a scan 0 <= found_count <=
\* processed_count, processed_count is the number of identifiers resolved in
\* the run, found_count the number of those with a status outside
\* {404_error, link_not_found}, and the rows appended in the run number
\* processed_count with skip_404 unset and found_count with it set; within
\* a run the counters never decrease.
C20_CountersAtBoundary ==
    [][ /\ IterationBoundary' => CountersAgree'
        /\ run' = run
              => (processed_count' >= processed_count /\ found_count' >= found_count) ]_vars

\* Three identifiers resolved with skip_404 set, one of them not found.
C20_Witness ==
    /\ IterationBoundary
    /\ skip_404
    /\ processed_count = 3
    /\ found_count = 2
    /\ Len(AppendedRows) = 2

====
